---- MODULE Spec2Model ----
(***************************************************************************)
(* State-machine model of the VoLTE SIP fuzzer: the process runner         *)
(* (fuzzer/sipp_runner.py), the logcat monitor with its reader and matcher *)
(* threads (fuzzer/adb_monitor.py) and the campaign loop                   *)
(* (fuzzer/orchestrator.py).                                               *)
(***************************************************************************)
EXTENDS Integers, Sequences, FiniteSets, TLC

\* ------------------------------------------------------------------ bounds

\* number of fuzz scenarios the generator returns (config fuzzing.iterations)
NumCases == 2
\* number of lines the device prints during a campaign
MaxLines == 1
\* number of lines the device prints during a monitoring session
MaxSessionLines == 2
\* last value of the wall clock
MaxTime == 1
\* observers registered on a monitor
MaxObservers == 2

\* ------------------------------------------------------------ python values

\* datetime.now(): a datetime object carrying the clock value
DateTime(t) == [type |-> "datetime", val |-> t]

\* datetime.isoformat(): a str; it orders like the instant it was made from
\* but is no datetime any more
IsoFormat(d) == [type |-> "str", val |-> d.val]

\* Plausible bug for PyGt: compare the instants whatever the operand types.
PyGtUntyped(a, b) == IF a.val > b.val THEN "True" ELSE "False"

\* a > b on Python values: ordered within one type, TypeError across
\* datetime and str (orchestrator.py:212 compares a datetime with a str)
PyGt(a, b) ==
    IF a.type = b.type
    THEN (IF a.val > b.val THEN "True" ELSE "False")
    ELSE "TypeError"

\* ------------------------------------------------------------------- text

UpperChars == <<"A", "B", "C", "D", "E", "F", "G", "H", "I", "J", "K", "L", "M", "N", "O", "P", "Q", "R", "S", "T", "U", "V", "W", "X", "Y", "Z">>
LowerChars == <<"a", "b", "c", "d", "e", "f", "g", "h", "i", "j", "k", "l", "m", "n", "o", "p", "q", "r", "s", "t", "u", "v", "w", "x", "y", "z">>

\* case folding of one character (re.IGNORECASE)
Fold(c) ==
    IF \E k \in 1..Len(UpperChars) : UpperChars[k] = c
    THEN LowerChars[CHOOSE k \in 1..Len(UpperChars) : UpperChars[k] = c]
    ELSE c

Whitespace == {" ", "\n", "\t", "\r"}

\* str.strip(): the text between its first and its last character that is
\* not whitespace
Strip(s) ==
    LET keep == {k \in 1..Len(s) : s[k] \notin Whitespace}
    IN  IF keep = {}
        THEN <<>>
        ELSE SubSeq(s, CHOOSE k \in keep : \A m \in keep : k <= m,
                       CHOOSE k \in keep : \A m \in keep : k >= m)

Str_FATAL_EXCEPTION == <<"F", "A", "T", "A", "L", " ", "E", "X", "C", "E", "P", "T", "I", "O", "N">>
Str_Fatal_signal == <<"F", "a", "t", "a", "l", " ", "s", "i", "g", "n", "a", "l">>
Str_SIGSEGV == <<"S", "I", "G", "S", "E", "G", "V">>
Str_ANR_in == <<"A", "N", "R", " ", "i", "n">>
Str_Application_Not_Responding == <<"A", "p", "p", "l", "i", "c", "a", "t", "i", "o", "n", " ", "N", "o", "t", " ", "R", "e", "s", "p", "o", "n", "d", "i", "n", "g">>
Str_ImsService == <<"I", "m", "s", "S", "e", "r", "v", "i", "c", "e">>
Str_error == <<"e", "r", "r", "o", "r">>
Str_VoLTE == <<"V", "o", "L", "T", "E">>
Str_fail == <<"f", "a", "i", "l">>
Str_SIP == <<"S", "I", "P">>
Str_40 == <<"4", "0">>
Str_50 == <<"5", "0">>
Str_segmentation_fault == <<"s", "e", "g", "m", "e", "n", "t", "a", "t", "i", "o", "n", " ", "f", "a", "u", "l", "t">>
Str_buffer_overflow == <<"b", "u", "f", "f", "e", "r", " ", "o", "v", "e", "r", "f", "l", "o", "w">>
Str_stack_smashing == <<"s", "t", "a", "c", "k", " ", "s", "m", "a", "s", "h", "i", "n", "g">>

\* ------------------------------------------------------ regular expressions

\* Every alternative of the signature table has the shape '.*a1.*a2.*': it
\* is kept as the sequence of its atoms a1, a2, each a sequence of character
\* classes.
Lit(s) == [k \in 1..Len(s) |-> {s[k]}]
Digit == <<{"0", "1", "2", "3", "4", "5", "6", "7", "8", "9"}>>

\* r'.*a.*'
ReHas(a) == <<Lit(a)>>
\* r'.*a.*b.*'
ReHasThen(a, b) == <<Lit(a), Lit(b)>>
\* r'.*a.*b[0-9].*'
ReHasThenCode(a, b) == <<Lit(a), Lit(b) \o Digit>>

CharIn(c, cls, ic) ==
    IF ic THEN Fold(c) \in {Fold(x) : x \in cls} ELSE c \in cls

\* the atom matches s at position j
AtomAt(atom, s, j, ic) ==
    /\ j + Len(atom) - 1 <= Len(s)
    /\ \A k \in 1..Len(atom) : CharIn(s[j + k - 1], atom[k], ic)

\* '.*a1.*a2.*' matches somewhere in s: the atoms are found in order, one
\* after the other, with no line break in between ('.' matches none)
MatchAlt(atoms, s, ic) ==
    \E pos \in [1..Len(atoms) -> 1..(Len(s) + 1)] :
        /\ \A a \in 1..Len(atoms) : AtomAt(atoms[a], s, pos[a], ic)
        /\ \A a \in 2..Len(atoms) : pos[a] >= pos[a - 1] + Len(atoms[a - 1])
        /\ \A m \in pos[1]..(pos[Len(atoms)] - 1) : s[m] /= "\n"

\* pattern.search(line): some alternative matches
Search(pattern, s) ==
    \E a \in 1..Len(pattern.alts) :
        MatchAlt(pattern.alts[a], s, pattern.ignorecase)

\* ADBMonitor._load_crash_patterns
crash_patterns == <<
    [name |-> "Native Crash", severity |-> "critical", ignorecase |-> FALSE,
     alts |-> <<ReHas(Str_FATAL_EXCEPTION), ReHas(Str_Fatal_signal), ReHas(Str_SIGSEGV)>>],
    [name |-> "ANR", severity |-> "high", ignorecase |-> FALSE,
     alts |-> <<ReHas(Str_ANR_in), ReHas(Str_Application_Not_Responding)>>],
    [name |-> "IMS Error", severity |-> "medium", ignorecase |-> TRUE,
     alts |-> <<ReHasThen(Str_ImsService, Str_error), ReHasThen(Str_VoLTE, Str_fail)>>],
    [name |-> "SIP Error", severity |-> "medium", ignorecase |-> FALSE,
     alts |-> <<ReHasThenCode(Str_SIP, Str_40), ReHasThenCode(Str_SIP, Str_50)>>],
    [name |-> "Segfault", severity |-> "critical", ignorecase |-> TRUE,
     alts |-> <<ReHas(Str_segmentation_fault), ReHas(Str_SIGSEGV)>>],
    [name |-> "Buffer Overflow", severity |-> "critical", ignorecase |-> TRUE,
     alts |-> <<ReHas(Str_buffer_overflow), ReHas(Str_stack_smashing)>>]
>>

\* ------------------------------------------------------------- log source

Line_SIGSEGV == <<"S", "I", "G", "S", "E", "G", "V", "\n">>
Line_sigsegv == <<"s", "i", "g", "s", "e", "g", "v", "\n">>
Line_SIP486 == <<"S", "I", "P", " ", "4", "8", "6", "\n">>
Line_SIP404 == <<"S", "I", "P", " ", "4", "0", "4", "\n">>
Line_idle == <<"o", "k", "\n">>

\* the lines a device under test may print
LogLines == {Line_SIGSEGV, Line_sigsegv, Line_SIP486, Line_SIP404, Line_idle}
\* the lines of a device that either crashes natively or logs nothing of note
CrashOrIdle == {Line_SIGSEGV, Line_idle}


\* ---------------------------------------------------------------- the state

VARIABLES
    enabled,      \* config android.enabled
    device_log,   \* the lines the device prints to logcat
    device_lines, \* how many lines the device prints at most
    now,          \* the wall clock (datetime.now(), time.time())
    \* FuzzingOrchestrator
    pc,           \* position of the main thread in run_fuzzing_campaign
    i,            \* index of the scenario of the current loop iteration
    test_start,   \* local test_start
    result,       \* local result: <<>> or <<outcome>>
    results,      \* self.results
    crashes,      \* self.crashes, the crash accumulator
    crash_cases,  \* the crash_<timestamp>.json records written
    report,       \* the fuzzing_results_<timestamp>.json summaries written
    summary,      \* local summary of _save_results: <<>> or <<summary>>
    baseline_out, \* the baseline_result_<timestamp>.json records written
    exc,          \* the exception that left run_fuzzing_campaign, <<>> if none
    windows,      \* history: [started_at, ended_at] of every executed test
    checks,       \* history: per test checked, the length of the accumulator
                  \* at the check and whether _save_crash_case was invoked
    \* SIPpRunner.run_scenario
    rpc,          \* position inside run_scenario
    alive,        \* processes of the spawned group that are running
    react,        \* what each process does on SIGTERM
    written,      \* what the child wrote to its stdout and stderr
    expired,      \* history: communicate() raised TimeoutExpired in this call
    failure,      \* history: the exception raised in this call, <<>> if none
    outcome,      \* the returned dict: <<>> or <<outcome>>
    signals,      \* history: signals sent to the group in this call
    \* ADBMonitor
    monitoring,   \* self.monitoring
    logproc,      \* self.process (adb logcat)
    log_queue,    \* self.log_queue
    callbacks,    \* self.callbacks
    rdpc,         \* position of the reader thread
    rdline,       \* the line readline() returned
    mtpc,         \* position of the matcher thread
    captured,     \* history: number of lines the source has produced
    taken,        \* history: per line taken by the matcher, the events emitted
    sink,         \* the logcat file
    stop_mark     \* history: <<>>, or what had been read, queued and taken when
                  \* stop_monitoring returned

envVars == <<enabled, device_log, device_lines, now>>
orchVars == <<pc, i, test_start, result, results, crash_cases, report, summary,
              baseline_out, exc,
              windows, checks>>
runnerVars == <<rpc, alive, react, written, expired, failure, outcome, signals>>
monitorVars == <<monitoring, logproc, log_queue, callbacks, rdpc, rdline, mtpc,
                 captured, taken, sink, stop_mark>>
vars == <<envVars, orchVars, crashes, runnerVars, monitorVars>>

\* time passes
Tick ==
    /\ now < MaxTime
    /\ now' = now + 1
    /\ UNCHANGED <<enabled, device_log, device_lines, orchVars, crashes, runnerVars,
                   monitorVars>>

\* ------------------------------------------------------------ SIPpRunner

\* the process group made by preexec_fn=os.setsid: docker exec and what it
\* forks
Procs == {"leader", "descendant"}
Groups == {{"leader"}, Procs}
Reactions == {"exit", "ignore"}
ExitCodes == {0, 1}
Writes == {[out |-> "", err |-> ""], [out |-> "sipp stdout", err |-> "sipp stderr"]}

FileNotFoundError == [cls |-> "FileNotFoundError", msg |-> "[Errno 2] No such file or directory: 'docker'"]
PermissionError == [cls |-> "PermissionError", msg |-> "[Errno 13] Permission denied: 'docker'"]
UnicodeDecodeError == [cls |-> "UnicodeDecodeError", msg |-> "'utf-8' codec can't decode byte 0xff"]
ProcessLookupError == [cls |-> "ProcessLookupError", msg |-> "[Errno 3] No such process"]
TimeoutExpired == [cls |-> "TimeoutExpired", msg |-> "Command timed out after 5 seconds"]
TypeError == [cls |-> "TypeError", msg |-> "'>' not supported between instances of 'datetime.datetime' and 'str'"]

\* what Popen() raises when the binary cannot be started
SpawnErrors == {FileNotFoundError, PermissionError}
\* what communicate() raises besides TimeoutExpired
WaitErrors == {UnicodeDecodeError}

\* str(e)
StrOf(e) == e.msg

\* Plausible bug for NormalOutcome: success set without looking at the
\* return code.
NormalOutcomeAlwaysSuccess(rc, out, err) ==
    [success |-> TRUE, stdout |-> out, stderr |-> err,
     exit_code |-> rc, timeout |-> FALSE]

\* the dict returned when communicate() returns (sipp_runner.py:71-78)
NormalOutcome(rc, out, err) ==
    [success |-> rc = 0, stdout |-> out, stderr |-> err,
     exit_code |-> rc, timeout |-> FALSE]

\* Plausible bug for TimeoutOutcome: the timeout flag left False.
TimeoutOutcomeUnflagged ==
    [success |-> FALSE, stdout |-> "", stderr |-> "Timeout",
     exit_code |-> -1, timeout |-> FALSE]

\* the dict returned by the TimeoutExpired handler (sipp_runner.py:88-95)
TimeoutOutcome ==
    [success |-> FALSE, stdout |-> "", stderr |-> "Timeout",
     exit_code |-> -1, timeout |-> TRUE]

\* Plausible bug for ErrorOutcome: the error text dropped.
ErrorOutcomeNoText(e) ==
    [success |-> FALSE, stdout |-> "", stderr |-> "",
     exit_code |-> -1, timeout |-> FALSE]

\* the dict returned by the Exception handler (sipp_runner.py:98-105)
ErrorOutcome(e) ==
    [success |-> FALSE, stdout |-> "", stderr |-> StrOf(e),
     exit_code |-> -1, timeout |-> FALSE]

\* run_scenario returns d
Return(d) ==
    /\ outcome' = <<d>>
    /\ rpc' = "returned"

\* an exception leaves run_scenario
Raise(e) ==
    /\ failure' = <<e>>
    /\ rpc' = "raised"
    /\ UNCHANGED outcome

\* a caller (run_batch, run_baseline_test, run_fuzzing_campaign) calls
\* run_scenario
RunScenarioCall ==
    /\ pc = "idle"
    /\ rpc = "idle"
    /\ rpc' = "spawn"
    /\ UNCHANGED <<alive, react, written, expired, failure, outcome, signals>>
    /\ UNCHANGED <<envVars, orchVars, crashes, monitorVars>>

\* subprocess.Popen(cmd, ..., preexec_fn=os.setsid)
Spawn ==
    /\ rpc = "spawn"
    /\ \/ \E e \in SpawnErrors :
            /\ failure' = <<e>>
            /\ Return(ErrorOutcome(e))
            /\ UNCHANGED <<alive, react, written>>
       \/ \E g \in Groups, r \in [Procs -> Reactions], w \in Writes :
            /\ \A p \in Procs \ g : r[p] = "exit"
            /\ alive' = g
            /\ react' = r
            /\ written' = w
            /\ rpc' = "communicate"
            /\ UNCHANGED <<failure, outcome>>
    /\ UNCHANGED <<expired, signals>>
    /\ UNCHANGED <<envVars, orchVars, crashes, monitorVars>>

\* self.process.communicate(timeout=timeout)
Communicate ==
    /\ rpc = "communicate"
    /\ \/ \E rc \in ExitCodes :
            /\ alive' = {}
            /\ Return(NormalOutcome(rc, written.out, written.err))
            /\ UNCHANGED <<expired, failure>>
       \/ /\ expired' = TRUE
          /\ rpc' = "timeout"
          /\ UNCHANGED <<alive, failure, outcome>>
       \/ \E e \in WaitErrors :
            /\ failure' = <<e>>
            /\ Return(ErrorOutcome(e))
            /\ UNCHANGED <<alive, expired>>
    /\ UNCHANGED <<react, written, signals>>
    /\ UNCHANGED <<envVars, orchVars, crashes, monitorVars>>

\* a process of the group ends by itself while the handler runs
ProcExit(p) ==
    /\ rpc \in {"timeout", "grace", "kill"}
    /\ p \in alive
    /\ alive' = alive \ {p}
    /\ UNCHANGED <<rpc, react, written, expired, failure, outcome, signals>>
    /\ UNCHANGED <<envVars, orchVars, crashes, monitorVars>>

\* os.killpg(os.getpgid(self.process.pid), sig): the signal reaches every
\* running process of the group
Deliver(sig) ==
    /\ signals' = Append(signals, sig)
    /\ alive' = IF sig = "SIGKILL"
                THEN {}
                ELSE {p \in alive : react[p] = "ignore"}

\* os.killpg(os.getpgid(self.process.pid), signal.SIGTERM) in the
\* TimeoutExpired handler. With the leader gone the call does what the
\* platform does for a pid that has exited: it succeeds (the pid is still a
\* zombie) or raises (the pid was reaped by the system, or the group holds
\* zombies only); an exception raised inside the handler is not caught by the
\* sibling except clause.
SigTerm ==
    /\ rpc = "timeout"
    /\ \/ /\ Deliver("SIGTERM")
          /\ rpc' = "grace"
          /\ UNCHANGED <<failure, outcome>>
       \/ /\ "leader" \notin alive
          /\ Raise(ProcessLookupError)
          /\ UNCHANGED <<alive, signals>>
    /\ UNCHANGED <<react, written, expired>>
    /\ UNCHANGED <<envVars, orchVars, crashes, monitorVars>>

\* time.sleep(1); self.process.poll() is None
Poll ==
    /\ rpc = "grace"
    /\ IF "leader" \in alive
       THEN rpc' = "kill" /\ UNCHANGED outcome
       ELSE Return(TimeoutOutcome)
    /\ UNCHANGED <<alive, react, written, expired, failure, signals>>
    /\ UNCHANGED <<envVars, orchVars, crashes, monitorVars>>

\* os.killpg(os.getpgid(self.process.pid), signal.SIGKILL), then the return
SigKill ==
    /\ rpc = "kill"
    /\ \/ /\ Deliver("SIGKILL")
          /\ Return(TimeoutOutcome)
          /\ UNCHANGED failure
       \/ /\ "leader" \notin alive
          /\ Raise(ProcessLookupError)
          /\ UNCHANGED <<alive, signals>>
    /\ UNCHANGED <<react, written, expired>>
    /\ UNCHANGED <<envVars, orchVars, crashes, monitorVars>>

\* run_scenario as one step of its caller: the dicts it can return
ScenarioOutcomes ==
    {NormalOutcome(rc, w.out, w.err) : rc \in ExitCodes, w \in Writes}
    \cup {TimeoutOutcome}
    \cup {ErrorOutcome(e) : e \in SpawnErrors \cup WaitErrors}

\* run_scenario as one step of its caller: the exceptions that can leave it
ScenarioRaises == {ProcessLookupError}

\* the step-by-step run_scenario returns and raises nothing but what the
\* one-step run_scenario does
RunnerSummary ==
    /\ rpc = "returned" => outcome[1] \in ScenarioOutcomes
    /\ rpc = "raised" => failure[1] \in ScenarioRaises


\* ------------------------------------------------------------ ADBMonitor

\* what may be registered with register_callback: the orchestrator's
\* _on_crash_detected, or a callable that raises when called
OrchObserver == "_on_crash_detected"
FaultyObserver == "raising_callback"
Observers == {OrchObserver, FaultyObserver}

\* ADBMonitor.register_callback
RegisterCallback(cb) ==
    /\ pc = "idle"
    /\ logproc = "none"
    /\ Len(callbacks) < MaxObservers
    /\ callbacks' = Append(callbacks, cb)
    /\ UNCHANGED <<monitoring, logproc, log_queue, rdpc, rdline, mtpc,
                   captured, taken, sink, stop_mark>>
    /\ UNCHANGED <<envVars, orchVars, crashes, runnerVars>>

\* the body of ADBMonitor.start_monitoring: adb logcat is started and the
\* reader and matcher threads with it
StartMonitoringBody ==
    /\ logproc' = "running"
    /\ monitoring' = TRUE
    /\ rdpc' = "read"
    /\ mtpc' = "check"

\* ADBMonitor.start_monitoring, called on a monitor by itself
StartMonitoring ==
    /\ pc = "idle"
    /\ logproc = "none"
    /\ StartMonitoringBody
    /\ UNCHANGED <<log_queue, callbacks, rdline, captured, taken, sink, stop_mark>>
    /\ UNCHANGED <<envVars, orchVars, crashes, runnerVars>>

\* the body of ADBMonitor.stop_monitoring: the flag is cleared, adb logcat
\* is sent terminate() and waited for; wait(timeout=5) raises when adb has
\* not ended by then
StopMonitoringBody(raises) ==
    /\ monitoring' = FALSE
    /\ IF raises
       THEN /\ logproc = "running"
            /\ UNCHANGED <<logproc, stop_mark>>
       ELSE /\ logproc' = IF logproc = "running" THEN "terminated" ELSE logproc
            /\ stop_mark' = <<[read |-> captured, queued |-> Len(sink),
                              taken |-> Len(taken)]>>

\* ADBMonitor.stop_monitoring, called on a monitor by itself
StopMonitoringCall ==
    /\ pc = "idle"
    /\ monitoring
    /\ \E raises \in BOOLEAN : StopMonitoringBody(raises)
    /\ UNCHANGED <<log_queue, callbacks, rdpc, rdline, mtpc, captured, taken, sink>>
    /\ UNCHANGED <<envVars, orchVars, crashes, runnerVars>>

\* readline() of the reader thread's for loop: the next line of logcat (a
\* line adb wrote to the pipe stays readable after adb has ended), or '' once
\* the process has gone
ReaderRead ==
    /\ rdpc = "read"
    /\ \/ /\ captured < device_lines
          /\ \E l \in device_log : rdline' = l
          /\ captured' = captured + 1
          /\ rdpc' = "check"
       \/ /\ logproc /= "running"
          /\ rdpc' = "done"
          /\ UNCHANGED <<rdline, captured>>
    /\ UNCHANGED <<monitoring, logproc, log_queue, callbacks, mtpc, taken, sink, stop_mark>>
    /\ UNCHANGED <<envVars, orchVars, crashes, runnerVars>>

\* Plausible bug for ReaderCheck: the stop flag is not looked at.
ReaderCheckUnconditional ==
    /\ rdpc = "check"
    /\ rdpc' = "put"
    /\ UNCHANGED <<monitoring, logproc, log_queue, callbacks, rdline, mtpc,
                   captured, taken, sink, stop_mark>>
    /\ UNCHANGED <<envVars, orchVars, crashes, runnerVars>>

\* if not self.monitoring: break
ReaderCheck ==
    /\ rdpc = "check"
    /\ rdpc' = IF monitoring THEN "put" ELSE "done"
    /\ UNCHANGED <<monitoring, logproc, log_queue, callbacks, rdline, mtpc,
                   captured, taken, sink, stop_mark>>
    /\ UNCHANGED <<envVars, orchVars, crashes, runnerVars>>

\* the dict put on the queue (adb_monitor.py:109-112)
LogEntry(t, line) == [timestamp |-> DateTime(t), line |-> Strip(line)]

\* self.log_queue.put(...); file_handle.write(line)
ReaderPut ==
    /\ rdpc = "put"
    /\ log_queue' = Append(log_queue, LogEntry(now, rdline))
    /\ sink' = Append(sink, rdline)
    /\ rdpc' = "read"
    /\ UNCHANGED <<monitoring, logproc, callbacks, rdline, mtpc, captured, taken,
                   stop_mark>>
    /\ UNCHANGED <<envVars, orchVars, crashes, runnerVars>>

\* adb logcat ends by itself (device unplugged, adb server gone)
LogSourceExit ==
    /\ logproc = "running"
    /\ logproc' = "exited"
    /\ UNCHANGED <<monitoring, log_queue, callbacks, rdpc, rdline, mtpc,
                   captured, taken, sink, stop_mark>>
    /\ UNCHANGED <<envVars, orchVars, crashes, runnerVars>>

\* the match_result dict (adb_monitor.py:132-137)
MatchResult(entry, pattern_def) ==
    [timestamp |-> entry.timestamp,
     pattern_name |-> pattern_def.name,
     severity |-> pattern_def.severity,
     log_line |-> entry.line]

\* callback(match_result): FuzzingOrchestrator._on_crash_detected appends to
\* the accumulator; a raising callable raises
Invoke(cb, ev, st) ==
    IF cb = OrchObserver
    THEN [st EXCEPT !.crashes = Append(@, ev)]
    ELSE [st EXCEPT !.raised = TRUE]

\* for callback in self.callbacks: callback(match_result)
RECURSIVE ForCallbacks(_, _, _, _)
ForCallbacks(cbs, k, ev, st) ==
    IF k > Len(cbs) \/ st.raised
    THEN st
    ELSE ForCallbacks(cbs, k + 1, ev, Invoke(cbs[k], ev, st))

\* pattern_def['pattern'].search(line) for every signature of the table
Hits(line) ==
    <<Search(crash_patterns[1], line), Search(crash_patterns[2], line),
      Search(crash_patterns[3], line), Search(crash_patterns[4], line),
      Search(crash_patterns[5], line), Search(crash_patterns[6], line)>>

\* the searches tabulated over the lines a device may print, so that each is
\* computed once
KnownLines == <<Strip(Line_SIGSEGV), Strip(Line_sigsegv), Strip(Line_SIP486),
                Strip(Line_SIP404), Strip(Line_idle)>>
SearchTable == <<Hits(KnownLines[1]), Hits(KnownLines[2]), Hits(KnownLines[3]),
                 Hits(KnownLines[4]), Hits(KnownLines[5])>>
Matches(p, line) ==
    SearchTable[CHOOSE k \in 1..Len(KnownLines) : KnownLines[k] = line][p]

\* for pattern_def in self.crash_patterns: ... ; an exception raised by a
\* callback leaves both loops (it is caught outside them, adb_monitor.py:145)
RECURSIVE ForPatterns(_, _, _, _)
ForPatterns(p, entry, cbs, st) ==
    IF p > Len(crash_patterns) \/ st.raised
    THEN st
    ELSE IF Matches(p, entry.line)
    THEN LET ev == MatchResult(entry, crash_patterns[p])
         IN  ForPatterns(p + 1, entry, cbs,
                 ForCallbacks(cbs, 1, ev, [st EXCEPT !.emitted = Append(@, ev)]))
    ELSE ForPatterns(p + 1, entry, cbs, st)

\* Plausible bug for QueueGet: the newest item is taken (a LIFO queue).
QueueGetNewest(q) == [item |-> q[Len(q)], rest |-> SubSeq(q, 1, Len(q) - 1)]

\* queue.Queue.get on a queue that is not empty: the oldest item leaves
QueueGet(q) == [item |-> Head(q), rest |-> Tail(q)]

\* Plausible bug for MatcherCheck: the loop never looks at the stop flag.
MatcherCheckIgnoresFlag ==
    /\ mtpc = "check"
    /\ mtpc' = "get"
    /\ UNCHANGED <<monitoring, logproc, log_queue, callbacks, rdpc, rdline,
                   captured, taken, sink, stop_mark>>
    /\ UNCHANGED <<envVars, orchVars, crashes, runnerVars>>

\* while self.monitoring:
MatcherCheck ==
    /\ mtpc = "check"
    /\ mtpc' = IF monitoring THEN "get" ELSE "done"
    /\ UNCHANGED <<monitoring, logproc, log_queue, callbacks, rdpc, rdline,
                   captured, taken, sink, stop_mark>>
    /\ UNCHANGED <<envVars, orchVars, crashes, runnerVars>>

\* one iteration of the matcher's loop body: get(timeout=0.1), then, unless
\* the queue was empty, every signature against the line
MatcherGet ==
    /\ mtpc = "get"
    /\ mtpc' = "check"
    /\ IF log_queue = <<>>
       THEN UNCHANGED <<log_queue, taken, crashes>>
       ELSE LET got == QueueGet(log_queue)
                entry == got.item
                st == ForPatterns(1, entry, callbacks,
                          [crashes |-> crashes, emitted |-> <<>>, raised |-> FALSE])
            IN  /\ log_queue' = got.rest
                /\ crashes' = st.crashes
                /\ taken' = Append(taken, [entry |-> entry, emitted |-> st.emitted,
                                           raised |-> st.raised])
    /\ UNCHANGED <<monitoring, logproc, callbacks, rdpc, rdline, captured, sink,
                   stop_mark>>
    /\ UNCHANGED <<envVars, orchVars, runnerVars>>

\* ---------------------------------------------------- FuzzingOrchestrator

\* run_fuzzing_campaign up to the loop: the scenarios are generated and, with
\* android.enabled, the callback is registered and monitoring started
StartCampaign ==
    /\ pc = "idle"
    /\ rpc = "idle"
    /\ logproc = "none"
    /\ pc' = "loop"
    /\ i' = 1
    /\ IF enabled
       THEN /\ callbacks' = Append(callbacks, OrchObserver)
            /\ StartMonitoringBody
       ELSE UNCHANGED <<callbacks, logproc, monitoring, rdpc, mtpc>>
    /\ UNCHANGED <<log_queue, rdline, captured, taken, sink, stop_mark>>
    /\ UNCHANGED <<envVars, test_start, result, results, crash_cases, report, summary, baseline_out,
                   exc, windows, checks, crashes, runnerVars>>

\* the head of the for loop: test_start = datetime.now(), or the end of the
\* loop
LoopHead ==
    /\ pc = "loop"
    /\ IF i <= NumCases
       THEN /\ test_start' = DateTime(now)
            /\ pc' = "run"
       ELSE /\ pc' = "stop"
            /\ UNCHANGED test_start
    /\ UNCHANGED <<i, result, results, crash_cases, report, summary, baseline_out, exc, windows, checks>>
    /\ UNCHANGED <<envVars, crashes, runnerVars, monitorVars>>

\* the test_result dict (orchestrator.py:162-171)
TestResult(scenario, start, res) ==
    [scenario |-> scenario,
     timestamp |-> IsoFormat(start),
     success |-> res.success,
     exit_code |-> res.exit_code,
     timeout |-> res.timeout]

\* result = self.sipp_runner.run_scenario(...), test_end = datetime.now(),
\* the test_result is built and appended to self.results; or run_scenario
\* raises and the exception leaves run_fuzzing_campaign, which catches
\* nothing
RunScenario ==
    /\ pc = "run"
    /\ \/ \E o \in ScenarioOutcomes :
            /\ result' = <<o>>
            /\ results' = Append(results, TestResult(i, test_start, o))
            /\ windows' = Append(windows, [started_at |-> test_start.val,
                                           ended_at |-> now])
            /\ pc' = "check"
            /\ UNCHANGED exc
       \/ \E e \in ScenarioRaises :
            /\ exc' = <<e>>
            /\ pc' = "aborted"
            /\ UNCHANGED <<result, results, windows>>
    /\ UNCHANGED <<i, test_start, crash_cases, report, summary, baseline_out, checks>>
    /\ UNCHANGED <<envVars, crashes, runnerVars, monitorVars>>

\* Plausible bug for IsPotentialIssue: a non-empty accumulator flags the test
\* too.
IsPotentialIssueOrCrashes(res, cs) ==
    res.exit_code /= 0 \/ res.timeout \/ cs /= <<>>

\* if result['exit_code'] != 0 or result['timeout']: the accumulator cs is
\* not looked at
IsPotentialIssue(res, cs) == res.exit_code /= 0 \/ res.timeout

\* [c for c in self.crashes if c['timestamp'] > result['timestamp']]: the
\* list, or the exception the comparison raises
CrashFilter(cs, res) ==
    [raised |-> \E k \in 1..Len(cs) :
                    PyGt(cs[k].timestamp, res.timestamp) = "TypeError",
     value |-> SelectSeq(cs, LAMBDA c : PyGt(c.timestamp, res.timestamp) = "True")]

\* the crash_case dict of _save_crash_case (orchestrator.py:208-213)
CrashCase(scenario, res, attributed) ==
    [scenario_file |-> scenario, result |-> res, crashes |-> attributed]

\* the rest of the loop body: the check after the test, for a flagged test
\* _save_crash_case, then time.sleep(delay_between_tests)
CheckCrash ==
    /\ pc = "check"
    /\ LET test_result == results[Len(results)]
           flagged == IsPotentialIssue(result[1], crashes)
           f == CrashFilter(crashes, test_result)
       IN  /\ checks' = Append(checks, [seen |-> Len(crashes), invoked |-> flagged])
           /\ IF flagged /\ f.raised
              THEN /\ exc' = <<TypeError>>
                   /\ pc' = "aborted"
                   /\ UNCHANGED <<crash_cases, i, result>>
              ELSE /\ crash_cases' =
                        IF flagged
                        THEN Append(crash_cases, CrashCase(i, test_result, f.value))
                        ELSE crash_cases
                   /\ i' = i + 1
                   /\ result' = <<>>
                   /\ pc' = "loop"
                   /\ UNCHANGED exc
    /\ UNCHANGED <<test_start, results, report, summary, baseline_out, windows>>
    /\ UNCHANGED <<envVars, crashes, runnerVars, monitorVars>>

\* after the loop: with android.enabled, self.adb_monitor.stop_monitoring(),
\* whose exception leaves run_fuzzing_campaign
StopMonitoring ==
    /\ pc = "stop"
    /\ IF enabled
       THEN \E raises \in BOOLEAN :
                /\ StopMonitoringBody(raises)
                /\ IF raises
                   THEN exc' = <<TimeoutExpired>> /\ pc' = "aborted"
                   ELSE pc' = "save" /\ UNCHANGED exc
       ELSE /\ pc' = "save"
            /\ UNCHANGED <<monitoring, logproc, stop_mark, exc>>
    /\ UNCHANGED <<log_queue, callbacks, rdpc, rdline, mtpc, captured, taken, sink>>
    /\ UNCHANGED <<i, test_start, result, results, crash_cases, report, summary, baseline_out, windows, checks>>
    /\ UNCHANGED <<envVars, crashes, runnerVars>>

\* the summary dict of _save_results (orchestrator.py:231-237): the lengths
\* are taken now, while 'results' and 'crash_details' are the lists
\* themselves and hold whatever they hold when the dict is dumped
Summary == [total_tests |-> Len(results), crashes |-> Len(crashes)]

\* self._save_results(), up to the summary dict
SaveResults ==
    /\ pc = "save"
    /\ summary' = <<Summary>>
    /\ pc' = "dump"
    /\ UNCHANGED <<i, test_start, result, results, crash_cases, report, baseline_out, exc,
                   windows, checks>>
    /\ UNCHANGED <<envVars, crashes, runnerVars, monitorVars>>

\* what json.dump(summary, f, indent=2, default=str) writes: it iterates the
\* two lists the dict refers to
Dumped(s, rs, cs) ==
    [total_tests |-> s.total_tests, crashes |-> s.crashes,
     results |-> rs, crash_details |-> cs]

\* json.dump(summary, ...) of _save_results, then the end of
\* run_fuzzing_campaign
JsonDump ==
    /\ pc = "dump"
    /\ report' = Append(report, Dumped(summary[1], results, crashes))
    /\ pc' = "stopped"
    /\ UNCHANGED <<i, test_start, result, results, crash_cases, summary, baseline_out, exc,
                   windows, checks>>
    /\ UNCHANGED <<envVars, crashes, runnerVars, monitorVars>>

\* run_baseline_test up to the scenario: with android.enabled the callback is
\* registered (again, on every call) and monitoring started. The call is made
\* on a new orchestrator or after an earlier call has returned and the
\* threads of its monitoring session have ended.
BaselineStart ==
    /\ pc \in {"idle", "returned"}
    /\ rdpc \in {"off", "done"}
    /\ mtpc \in {"off", "done"}
    /\ Len(callbacks) < MaxObservers
    /\ pc' = "baseline_run"
    /\ IF enabled
       THEN /\ callbacks' = Append(callbacks, OrchObserver)
            /\ StartMonitoringBody
       ELSE UNCHANGED <<callbacks, logproc, monitoring, rdpc, mtpc>>
    /\ UNCHANGED <<log_queue, rdline, captured, taken, sink, stop_mark>>
    /\ UNCHANGED <<envVars, i, test_start, result, results, crash_cases, report,
                   summary, baseline_out, exc, windows, checks, crashes, runnerVars>>

\* result = self.sipp_runner.run_scenario(...) of run_baseline_test, or
\* run_scenario raises and the exception leaves run_baseline_test
BaselineRun ==
    /\ pc = "baseline_run"
    /\ \/ \E o \in ScenarioOutcomes :
            /\ result' = <<o>>
            /\ pc' = "baseline_stop"
            /\ UNCHANGED exc
       \/ \E e \in ScenarioRaises :
            /\ exc' = <<e>>
            /\ pc' = "aborted"
            /\ UNCHANGED result
    /\ UNCHANGED <<i, test_start, results, crash_cases, report, summary,
                   baseline_out, windows, checks>>
    /\ UNCHANGED <<envVars, crashes, runnerVars, monitorVars>>

\* with android.enabled, self.adb_monitor.stop_monitoring() of
\* run_baseline_test, whose exception leaves run_baseline_test
BaselineStop ==
    /\ pc = "baseline_stop"
    /\ IF enabled
       THEN \E raises \in BOOLEAN :
                /\ StopMonitoringBody(raises)
                /\ IF raises
                   THEN exc' = <<TimeoutExpired>> /\ pc' = "aborted"
                   ELSE pc' = "baseline_save" /\ UNCHANGED exc
       ELSE /\ pc' = "baseline_save"
            /\ UNCHANGED <<monitoring, logproc, stop_mark, exc>>
    /\ UNCHANGED <<log_queue, callbacks, rdpc, rdline, mtpc, captured, taken, sink>>
    /\ UNCHANGED <<i, test_start, result, results, crash_cases, report, summary,
                   baseline_out, windows, checks>>
    /\ UNCHANGED <<envVars, crashes, runnerVars>>

\* the baseline_result dict (orchestrator.py:91-97)
BaselineResult(t, res, cs) ==
    [test_type |-> "baseline", timestamp |-> IsoFormat(DateTime(t)),
     result |-> res, crashes |-> cs]

\* the baseline_result is dumped and run_baseline_test returns
BaselineSave ==
    /\ pc = "baseline_save"
    /\ baseline_out' = Append(baseline_out, BaselineResult(now, result[1], crashes))
    /\ result' = <<>>
    /\ pc' = "returned"
    /\ UNCHANGED <<i, test_start, results, crash_cases, report, summary, exc,
                   windows, checks>>
    /\ UNCHANGED <<envVars, crashes, runnerVars, monitorVars>>

\* ------------------------------------------------------ the specifications

\* the state after FuzzingOrchestrator.__init__
Constructed ==
    /\ now = 0
    /\ pc = "idle"
    /\ i = 1
    /\ test_start = DateTime(0)
    /\ result = <<>>
    /\ results = <<>>
    /\ crashes = <<>>
    /\ crash_cases = <<>>
    /\ report = <<>>
    /\ summary = <<>>
    /\ baseline_out = <<>>
    /\ exc = <<>>
    /\ windows = <<>>
    /\ checks = <<>>
    /\ rpc = "idle"
    /\ alive = {}
    /\ react = [p \in Procs |-> "exit"]
    /\ written = [out |-> "", err |-> ""]
    /\ expired = FALSE
    /\ failure = <<>>
    /\ outcome = <<>>
    /\ signals = <<>>
    /\ monitoring = FALSE
    /\ logproc = "none"
    /\ log_queue = <<>>
    /\ callbacks = <<>>
    /\ rdpc = "off"
    /\ rdline = <<>>
    /\ mtpc = "off"
    /\ captured = 0
    /\ taken = <<>>
    /\ sink = <<>>
    /\ stop_mark = <<>>

\* A fuzzing campaign (main.py --fuzz), with and without logcat monitoring.
Init ==
    /\ enabled \in BOOLEAN
    /\ device_log = CrashOrIdle
    /\ device_lines = MaxLines
    /\ Constructed

Next ==
    \/ Tick
    \/ StartCampaign
    \/ LoopHead
    \/ RunScenario
    \/ CheckCrash
    \/ StopMonitoring
    \/ SaveResults
    \/ JsonDump
    \/ ReaderRead
    \/ ReaderCheck
    \/ ReaderPut
    \/ LogSourceExit
    \/ MatcherCheck
    \/ MatcherGet

Spec == Init /\ [][Next]_vars

\* One call of SIPpRunner.run_scenario, step by step.
RunnerInit ==
    /\ enabled = FALSE
    /\ device_log = {}
    /\ device_lines = 0
    /\ Constructed

RunnerNext ==
    \/ RunScenarioCall
    \/ Spawn
    \/ Communicate
    \/ \E p \in Procs : ProcExit(p)
    \/ SigTerm
    \/ Poll
    \/ SigKill

RunnerSpec == RunnerInit /\ [][RunnerNext]_vars

\* One monitoring session of an ADBMonitor with registered observers.
MonitorInit ==
    /\ enabled = TRUE
    /\ device_log = LogLines
    /\ device_lines = MaxSessionLines
    /\ Constructed

MonitorNext ==
    \/ \E cb \in Observers : RegisterCallback(cb)
    \/ StartMonitoring
    \/ StopMonitoringCall
    \/ ReaderRead
    \/ ReaderCheck
    \/ ReaderPut
    \/ LogSourceExit
    \/ MatcherCheck
    \/ MatcherGet

MonitorSpec == MonitorInit /\ [][MonitorNext]_vars

\* The same session with the matcher thread scheduled: the thread keeps
\* running, and get(timeout=0.1) returns after a tenth of a second at most.
MonitorFairSpec ==
    /\ MonitorSpec
    /\ WF_vars(MatcherCheck)
    /\ WF_vars(MatcherGet)

\* One orchestrator used for several run_baseline_test calls in a row, with
\* logcat monitoring.
ReuseInit ==
    /\ enabled = TRUE
    /\ device_log = CrashOrIdle
    /\ device_lines = MaxSessionLines
    /\ Constructed

ReuseNext ==
    \/ BaselineStart
    \/ BaselineRun
    \/ BaselineStop
    \/ BaselineSave
    \/ ReaderRead
    \/ ReaderCheck
    \/ ReaderPut
    \/ LogSourceExit
    \/ MatcherCheck
    \/ MatcherGet

ReuseSpec == ReuseInit /\ [][ReuseNext]_vars


\* ------------------------------------------------------------- properties

\* the outcome is a failure: non-zero exit code, timeout or runner error
Failed(r) == r.exit_code /= 0 \/ r.timeout

\* the event's timestamp lies in [started_at, ended_at] of test k
InWindow(c, k) ==
    /\ windows[k].started_at <= c.timestamp.val
    /\ c.timestamp.val <= windows[k].ended_at

\* the crash cases written for test k
SavedFor(k) == {j \in 1..Len(crash_cases) : crash_cases[j].scenario_file = k}

\* C1: a test case whose outcome is a failure never aborts the campaign in
\* its iteration, whatever the crash accumulator holds at that moment: the
\* loop goes on to the next case.
C1_FailedCaseDoesNotAbort ==
    \A k \in 1..Len(results) :
        Failed(results[k]) => ~(pc = "aborted" /\ i = k)

\* C2: the 'crashes' list of a crash case never holds an event whose
\* timestamp is before the test's started_at or after its ended_at.
C2_AttributedInsideWindow ==
    \A j \in 1..Len(crash_cases) :
        \A m \in 1..Len(crash_cases[j].crashes) :
            InWindow(crash_cases[j].crashes[m], crash_cases[j].scenario_file)

\* C2, its case: a crash case has been written for a test and the
\* accumulator holds an event from outside that test's window.
C2_Witness ==
    \E j \in 1..Len(crash_cases) :
        \E m \in 1..Len(crashes) :
            ~InWindow(crashes[m], crash_cases[j].scenario_file)

\* C3: a test that was checked with a non-zero exit code, a timeout, or an
\* event of the accumulator in its window had _save_crash_case invoked for
\* it; each of the three on its own is enough.
C3_FlaggedCaseIsPersisted ==
    \A k \in 1..Len(checks) :
        (\/ results[k].exit_code /= 0
         \/ results[k].timeout
         \/ \E m \in 1..checks[k].seen : InWindow(crashes[m], k))
        => checks[k].invoked

\* C4: a test with exit code 0, no timeout and no event in its window is not
\* persisted as a crash case (_save_crash_case is not invoked, no crash case
\* is written), whatever earlier events the accumulator holds.
C4_CleanCaseNotPersisted ==
    \A k \in 1..Len(checks) :
        (/\ results[k].exit_code = 0
         /\ ~results[k].timeout
         /\ \A m \in 1..Len(crashes) : ~InWindow(crashes[m], k))
        => (~checks[k].invoked /\ SavedFor(k) = {})

\* C4, its case: a clean test was checked while the accumulator held events
\* from outside its window.
C4_Witness ==
    \E k \in 1..Len(checks) :
        /\ results[k].exit_code = 0
        /\ ~results[k].timeout
        /\ checks[k].seen > 0
        /\ \A m \in 1..Len(crashes) : ~InWindow(crashes[m], k)

\* C5: an outcome returned after communicate() timed out has timeout = true,
\* success = false and exit_code = -1.
C5_TimeoutOutcome ==
    (rpc = "returned" /\ expired) =>
        /\ outcome[1].timeout
        /\ ~outcome[1].success
        /\ outcome[1].exit_code = -1

\* C5, its case: run_scenario has returned from a run that timed out with
\* the child still running.
C5_Witness == rpc = "returned" /\ expired /\ signals /= <<>>

\* C6: when run_scenario returns after a timeout, no process of the spawned
\* group is running any more.
C6_GroupTerminated == (rpc = "returned" /\ expired) => alive = {}

\* C7: no exception leaves run_scenario.
C7_NeverRaises == rpc /= "raised"

\* C8: when spawning the child or waiting for it failed with an error other
\* than the timeout, the outcome has success = false, exit_code = -1,
\* timeout = false and the error text in stderr.
C8_ErrorOutcome ==
    (rpc = "returned" /\ failure /= <<>>) =>
        /\ ~outcome[1].success
        /\ outcome[1].exit_code = -1
        /\ ~outcome[1].timeout
        /\ outcome[1].stderr = failure[1].msg

\* C8, its case: run_scenario has returned after communicate() failed.
C8_Witness == rpc = "returned" /\ failure /= <<>> /\ failure[1] \in WaitErrors

\* C9: every returned outcome has success exactly when exit_code is 0 and
\* timeout is false.
C9_SuccessDefinition ==
    rpc = "returned" =>
        (outcome[1].success <=> (outcome[1].exit_code = 0 /\ ~outcome[1].timeout))

\* C9, its case: run_scenario has returned the outcome of a child that
\* ended by itself with a non-zero exit code.
C9_Witness ==
    rpc = "returned" /\ ~expired /\ failure = <<>> /\ outcome[1].exit_code /= 0

\* C10: for every line the matcher took from the queue, the events emitted
\* are exactly one per signature that matches the line, in table order, and
\* none for the others.
C10_OneEventPerMatchingSignature ==
    \A k \in 1..Len(taken) :
        LET entry == taken[k].entry
            hit == SelectSeq([p \in 1..Len(crash_patterns) |-> p],
                             LAMBDA p : Matches(p, entry.line))
        IN  taken[k].emitted =
                [n \in 1..Len(hit) |-> MatchResult(entry, crash_patterns[hit[n]])]

\* a SIP response code of class 4xx or 5xx follows 'SIP' in the line
CarriesSipErrorCode(line) ==
    MatchAlt(<<Lit(Str_SIP), <<{"4", "5"}>> \o Digit \o Digit>>, line, FALSE)

\* C11: for every line taken by the matcher that carries a SIP response code
\* from 400 to 599 after 'SIP', and on which no observer raised, a 'SIP Error'
\* event of severity medium is emitted.
C11_SipErrorClassDetected ==
    \A k \in 1..Len(taken) :
        (~taken[k].raised /\ CarriesSipErrorCode(taken[k].entry.line))
        => \E n \in 1..Len(taken[k].emitted) :
               /\ taken[k].emitted[n].pattern_name = "SIP Error"
               /\ taken[k].emitted[n].severity = "medium"

\* C12: when an observer raised on an event of a line, every signature that
\* matches the line has still produced its event and the other registered
\* observers (here the orchestrator's _on_crash_detected) have received it.
C12_ObserverFailureIsolated ==
    \A k \in 1..Len(taken) :
        taken[k].raised =>
            \A p \in 1..Len(crash_patterns) :
                Matches(p, taken[k].entry.line) =>
                    LET ev == MatchResult(taken[k].entry, crash_patterns[p])
                    IN  /\ \E n \in 1..Len(taken[k].emitted) : taken[k].emitted[n] = ev
                        /\ (\E c \in 1..Len(callbacks) : callbacks[c] = OrchObserver)
                           => \E m \in 1..Len(crashes) : crashes[m] = ev

\* C13: the accumulator is not appended to while the main thread is inside
\* its read of it in _save_results, between taking len(self.crashes) for the
\* summary and dumping the list.
C13_AccumulatorReadExcludesAppend ==
    [][pc = "dump" => crashes' = crashes]_vars

\* position of an event's signature in the table
TableIndex(ev) ==
    CHOOSE p \in 1..Len(crash_patterns) : crash_patterns[p].name = ev.pattern_name

\* C14: the lines the matcher has taken, followed by the lines still queued,
\* are the lines the reader has put, in the order it put them; and the
\* events the orchestrator's observer has received come in detection order,
\* those of an earlier line before those of a later line and for one line in
\* table order.
C14_FifoAndDetectionOrder ==
    /\ [k \in 1..(Len(taken) + Len(log_queue)) |->
            IF k <= Len(taken) THEN taken[k].entry.line
            ELSE log_queue[k - Len(taken)].line]
       = [k \in 1..Len(sink) |-> Strip(sink[k])]
    /\ \E f \in [1..Len(crashes) -> 1..Len(taken)] :
        /\ \A m \in 1..Len(crashes) :
               \E n \in 1..Len(taken[f[m]].emitted) :
                   taken[f[m]].emitted[n] = crashes[m]
        /\ \A m, n \in 1..Len(crashes) :
               m < n => /\ f[m] <= f[n]
                        /\ f[m] = f[n] => TableIndex(crashes[m]) <= TableIndex(crashes[n])

\* C14, its case: two different lines were taken one after the other, each
\* matched a signature, and the orchestrator's observer received events of
\* both.
C14_Witness ==
    /\ Len(taken) = 2
    /\ taken[1].entry.line /= taken[2].entry.line
    /\ taken[1].emitted /= <<>>
    /\ taken[2].emitted /= <<>>
    /\ \E m, n \in 1..Len(crashes) :
           /\ m < n
           /\ crashes[m].log_line = taken[1].entry.line
           /\ crashes[n].log_line = taken[2].entry.line

\* what the monitor has told the orchestrator besides signature matches: its
\* only channel to the orchestrator is the registered callback, which feeds
\* the accumulator
MonitorWarnings ==
    {m \in 1..Len(crashes) :
        \A p \in 1..Len(crash_patterns) :
            crashes[m].pattern_name /= crash_patterns[p].name}

\* C15: when adb logcat has ended by itself during monitoring and the reader
\* has stopped on the end of its output while the orchestrator is still
\* running test cases, a warning has reached the orchestrator.
C15_LogSourceLossSurfaced ==
    (/\ monitoring
     /\ logproc = "exited"
     /\ rdpc = "done"
     /\ pc \in {"loop", "run", "check"})
    => (MonitorWarnings /= {} \/ exc /= <<>>)

\* C16: once stop_monitoring has returned, the reader puts at most one more
\* line on the queue and into the sink, and every line it puts was read
\* before stop_monitoring returned.
C16_NoLinesQueuedAfterStop ==
    stop_mark /= <<>> =>
        /\ Len(sink) <= stop_mark[1].queued + 1
        /\ Len(sink) <= stop_mark[1].read
        /\ Len(taken) + Len(log_queue) = Len(sink)

\* C16, its case: after stop_monitoring returned, the line in flight was put
\* and a line read later was dropped by the reader, which has ended.
C16_Witness ==
    /\ stop_mark /= <<>>
    /\ Len(sink) = stop_mark[1].queued + 1
    /\ captured > stop_mark[1].read
    /\ rdpc = "done"

\* C17: once the stop flag is cleared the matcher thread ends, whatever the
\* queue holds, and after stop_monitoring has returned it takes at most one
\* more line from the queue.
C17_MatcherTerminatesAfterStop ==
    /\ [](stop_mark /= <<>> => Len(taken) <= stop_mark[1].taken + 1)
    /\ (mtpc /= "off" /\ ~monitoring) ~> (mtpc = "done")

\* C17, its case: stop_monitoring has returned, the matcher thread has ended
\* and lines it never matched are still on the queue.
C17_Witness ==
    /\ stop_mark /= <<>>
    /\ mtpc = "done"
    /\ log_queue /= <<>>

\* C18: at most one report is ever written, and a campaign that has processed
\* every test case does not end, on whatever path, without its report: one
\* result per test case and the crash count.
C18_ReportWrittenOnce ==
    /\ Len(report) <= 1
    /\ (pc \in {"stopped", "aborted"} /\ i > NumCases) =>
           /\ Len(report) = 1
           /\ report[1].total_tests = NumCases
           /\ Len(report[1].results) = NumCases

\* C19: when a campaign that started the monitor has ended, by returning or by
\* an exception, the monitoring flag is false, adb logcat is no longer running
\* and the reader and matcher threads have ended.
C19_MonitorStoppedAtCampaignEnd ==
    (enabled /\ pc \in {"stopped", "aborted"}) =>
        /\ ~monitoring
        /\ logproc /= "running"
        /\ rdpc = "done"
        /\ mtpc = "done"

\* C20: the signals sent in one call are none, SIGTERM, or SIGTERM then
\* SIGKILL; none is sent unless communicate() timed out; and a call that
\* returns after a timeout having sent SIGTERM only leaves no process of the
\* group running (a group still alive after the grace period gets SIGKILL).
C20_SignalEscalation ==
    /\ signals \in {<<>>, <<"SIGTERM">>, <<"SIGTERM", "SIGKILL">>}
    /\ signals /= <<>> => expired
    /\ (rpc = "returned" /\ expired /\ signals = <<"SIGTERM">>) => alive = {}

\* C21: every event of the accumulator whose timestamp lies in
\* [started_at, ended_at] of a test that has been checked is in the 'crashes'
\* list of a crash case written for that test.
C21_WindowEventsAttributed ==
    \A k \in 1..Len(checks) :
        \A m \in 1..Len(crashes) :
            InWindow(crashes[m], k) =>
                \E j \in SavedFor(k) :
                    \E n \in 1..Len(crash_cases[j].crashes) :
                        crash_cases[j].crashes[n] = crashes[m]

\* the captured text holds everything the child wrote to the stream
HoldsAll(field, text) == text = "" \/ field = text

\* C22: an outcome returned after communicate() returned or timed out holds
\* in stdout and stderr everything the child wrote to those streams.
C22_OutputFullyCaptured ==
    (rpc = "returned" /\ failure = <<>>) =>
        /\ HoldsAll(outcome[1].stdout, written.out)
        /\ HoldsAll(outcome[1].stderr, written.err)

\* the number of events the matcher has emitted
EmittedCount ==
    Cardinality({kn \in (1..Len(taken)) \X (1..(2 * Len(crash_patterns))) :
                    kn[2] <= Len(taken[kn[1]].emitted)})

\* C23: the accumulator holds every emitted event exactly once: its length is
\* the number of events emitted.
C23_EachEventAccumulatedOnce == Len(crashes) = EmittedCount

\* C24: in a written report, every line that was on the queue or had passed
\* through it when stop_monitoring was called, and that matches a signature,
\* has an event among the crash details and is covered by the crash count.
C24_QueuedEvidenceInReport ==
    (Len(report) = 1 /\ stop_mark /= <<>>) =>
        \A k \in 1..stop_mark[1].queued :
            (\E p \in 1..Len(crash_patterns) : Matches(p, Strip(sink[k]))) =>
                /\ report[1].crashes > 0
                /\ \E m \in 1..Len(report[1].crash_details) :
                       report[1].crash_details[m].log_line = Strip(sink[k])

====
